---- MODULE Spec2Model ----
(***************************************************************************)
(* Model of the speaches-ui gateway (src/main.go): the two request         *)
(* handlers handleTTS and handleSTT, their outbound calls to the           *)
(* speaches.ai backend and the install-then-retry flow on a missing model. *)
(*                                                                         *)
(* A handler runs to completion, blocking at each outbound HTTP call.  An  *)
(* action is the code between two blocking points: the start of the        *)
(* handler up to the first call, and the return of each call up to the     *)
(* next call or the response to the client.                                *)
(***************************************************************************)
EXTENDS Integers, Sequences, FiniteSets, TLC

VARIABLES
    env,    \* the value of the SPEACHES_URL environment variable
    pc,     \* per request: off | idle | call1 | install | call2 | done | other
    kind,   \* per request: none | tts | stt (the handler serving it)
    inp,    \* per request: the client's input
    loc,    \* per request: the handler's locals
    sent,   \* per request: the outbound requests issued, in order
    ret,    \* per request: what each outbound request returned, in order
    log,    \* per request: the order of outbound events
    resp,   \* per request: the response the handler wrote to the client
    client, \* per request: connected | gone (the client's connection)
    scope,  \* which inputs are enumerated: wide | pair | bodies
    cat     \* per request: the state of a catalogue handler serving it
            \* (handleInstallModel, handleGetModels, handleGetRegistryModels)

vars == <<env, pc, kind, inp, loc, sent, ret, log, resp, client, scope, cat>>

\* What no step of handleTTS and handleSTT changes: the process environment,
\* the clients' connections, the enumeration and the catalogue handlers.
world == <<env, client, scope, cat>>

\* What handleTTS and handleSTT hold about their requests.
gateway == <<kind, inp, loc, sent, ret, log, resp>>

----------------------------------------------------------------------------
(* Bounds and input sets *)

\* Longest client text enumerated.
MaxTextLen == 2

\* Most fragments a backend error body is composed of, under scope "bodies".
MaxFragments == 2

\* Longest model list the backend answers with.
MaxModels == 2

\* Request slots.  Spec serves one request (slot "a").
Slots == {"a", "b"}
Serial == {"a"}

TextChars == {" ", "x"}

RECURSIVE StringsUpTo(_)
StringsUpTo(n) ==
    IF n = 0 THEN {""}
    ELSE LET shorter == StringsUpTo(n - 1)
         IN  shorter \cup {s \o c : s \in shorter, c \in TextChars}

\* The inputs are enumerated widely for one request (scope "wide"), narrowly
\* for two requests served side by side (scope "pair"), and narrowly with many
\* backend error bodies (scope "bodies").
Texts ==
    IF scope = "wide" THEN StringsUpTo(MaxTextLen) \cup {"Hello world"} ELSE {"x"}

ClientModels ==
    IF scope = "wide" THEN {"", "tts-1", "tts-1-piper", "tts-2"}
    ELSE {"tts-1", "tts-1-piper"}
ClientVoices ==
    IF scope = "wide"
    THEN {"", "af_nova", "bf_emma", "en_US-ryan-medium", "en_US-amy-low", "bogus"}
    ELSE {"bogus"}

\* A form field is absent ({}) or present with one value ({v}).
ClientLanguages ==
    IF scope = "wide" THEN {{}, {""}, {"fr"}, {"xx"}} ELSE {{"fr"}}
ClientTiers ==
    IF scope = "bodies" THEN {{}} ELSE {{}, {"fast"}, {"turbo"}}
AudioBlobs == IF scope = "wide" THEN {"RIFF1", "RIFF2"} ELSE {"RIFF1"}
FileNames == {"clip.wav"}
\* The uploaded file: missing from the form, unopenable, unreadable, or read.
FileStates ==
    IF scope = "wide" THEN {"missing", "openerr", "readerr", "ok"} ELSE {"ok"}

EnvValues ==
    IF scope = "wide" THEN {"", "http://speaches:9000", "::bad"}
    ELSE {"", "http://speaches:9000"}

\* The pieces backend error bodies are composed of under scope "bodies".
Fragments == {"Model", "not found", "is not installed locally", "model "}

RECURSIVE Compositions(_)
Compositions(n) ==
    IF n = 0 THEN {""}
    ELSE LET shorter == Compositions(n - 1)
         IN  shorter \cup {s \o f : s \in shorter, f \in Fragments}

\* What the backend can answer.
Statuses == IF scope = "wide" THEN {200, 404, 500} ELSE {200, 404}
Bodies ==
    CASE scope = "wide" ->
           {"", "Model xyz not found", "x is not installed locally", "not found",
            "{\"text\":\"hola\"}", "ID3"}
      [] scope = "pair" -> {"Model xyz not found", "{\"text\":\"hola\"}"}
      [] scope = "bodies" -> Compositions(MaxFragments)
InstallStatuses == IF scope = "wide" THEN {200, 404} ELSE {200}

NetErr == [err |-> TRUE, status |-> 0, body |-> ""]
HTTPResponse(s, b) == [err |-> FALSE, status |-> s, body |-> b]

----------------------------------------------------------------------------
(* Library behaviour the handlers rely on *)

\* bytes.Contains
Contains(s, sub) ==
    \E i \in 1..(Len(s) - Len(sub) + 1) : SubSeq(s, i, i + Len(sub) - 1) = sub

\* url.Parse inside http.NewRequest / http.Post: a URL whose first character
\* is ':' has no protocol scheme and is rejected.
ValidURL(u) == ~(Len(u) > 0 /\ SubSeq(u, 1, 1) = ":")

\* The outcomes of one outbound call to url: a URL that does not parse fails
\* without a response.
Outcomes(url) ==
    IF ValidURL(url)
    THEN {NetErr} \cup {HTTPResponse(s, b) : s \in Statuses, b \in Bodies}
    ELSE {NetErr}

InstallOutcomes(url) ==
    IF ValidURL(url)
    THEN {NetErr} \cup {HTTPResponse(s, "") : s \in InstallStatuses}
    ELSE {NetErr}

\* c.DefaultPostForm
DefaultPostForm(field, default) ==
    IF field = {} THEN default ELSE CHOOSE v \in field : TRUE

----------------------------------------------------------------------------
(* Responses to the client *)

NoResponse == [status |-> 0, ctype |-> "", disp |-> "", error |-> "", body |-> ""]

\* c.JSON(status, gin.H{"error": msg})
JSONError(status, msg) ==
    [status |-> status, ctype |-> "application/json", disp |-> "", error |-> msg, body |-> ""]

\* c.JSON(http.StatusOK, gin.H{"text": text})
JSONText(text) ==
    [status |-> 200, ctype |-> "application/json", disp |-> "", error |-> "", body |-> text]

\* Mutant: the audio is copied without the two headers.
AudioStream_NoHeaders(body) ==
    [status |-> 200, ctype |-> "", disp |-> "", error |-> "", body |-> body]

\* c.Header("Content-Type", "audio/mpeg"); c.Header("Content-Disposition", "inline");
\* io.Copy(c.Writer, resp.Body)
AudioStream(body) ==
    [status |-> 200, ctype |-> "audio/mpeg", disp |-> "inline", error |-> "", body |-> body]

\* c.JSON(resp.StatusCode, gin.H{"error": "speaches.ai server error: " + errorMsg})
OriginalError(first) ==
    JSONError(first.status, "speaches.ai server error: " \o first.body)

----------------------------------------------------------------------------
(* handleTTS *)

kokoroVoices ==
    {"af_nova", "af_sarah", "af_bella", "af_heart", "af_aoede", "af_jessica",
     "af_kore", "af_nicole", "af_river", "af_sky", "af_alloy",
     "am_adam", "am_echo", "am_liam", "am_onyx", "am_michael", "am_eric",
     "am_fenrir", "am_puck", "am_santa",
     "bf_alice", "bf_emma", "bf_isabella", "bf_lily",
     "bm_fable", "bm_george", "bm_daniel", "bm_lewis"}

piperVoices ==
    {"en_US-ryan-high", "en_US-ryan-low", "en_US-ryan-medium",
     "en_US-amy-low", "en_US-amy-medium", "en_US-hfc_female-medium",
     "en_US-kathleen-low", "en_US-kristin-medium", "en_US-ljspeech-high",
     "en_US-ljspeech-medium",
     "en_US-hfc_male-medium", "en_US-lessac-high", "en_US-lessac-low",
     "en_US-lessac-medium", "en_US-danny-low", "en_US-joe-medium",
     "en_US-john-medium", "en_US-bryce-medium", "en_US-kusal-medium",
     "en_US-norman-medium",
     "en_US-libritts-high", "en_US-libritts_r-medium", "en_US-arctic-medium",
     "en_US-l2arctic-medium",
     "en_GB-alan-low", "en_GB-alan-medium", "en_GB-southern_english_female-low",
     "en_GB-alba-medium", "en_GB-aru-medium", "en_GB-cori-high",
     "en_GB-cori-medium", "en_GB-jenny_dioco-medium",
     "en_GB-northern_english_male-medium", "en_GB-semaine-medium",
     "en_GB-vctk-medium"}

\* c.BindJSON(&req) with Text bound as "required": malformed JSON, a missing
\* text field and an empty text are all binding errors.
BindJSONFails(jsonOK, text) == ~jsonOK \/ text = ""

\* Mutant: the kokoro branch does not look the voice up and always defaults it.
NormalizeVoice_KokoroDefaulted(reqModel, reqVoice) ==
    LET model == IF reqModel = "" THEN "tts-1" ELSE reqModel
    IN  IF model = "tts-1-piper"
        THEN LET voice == IF reqVoice \in piperVoices THEN reqVoice
                          ELSE "en_US-ryan-medium"
             IN  [model |-> "tts-1-piper",
                  voice |-> voice,
                  actualModel |-> "speaches-ai/piper-" \o voice]
        ELSE [model |-> "tts-1", voice |-> "af_nova", actualModel |-> "tts-1"]

\* Mutant: the piper branch accepts every voice that is not empty.
NormalizeVoice_PiperUnchecked(reqModel, reqVoice) ==
    LET model == IF reqModel = "" THEN "tts-1" ELSE reqModel
    IN  IF model = "tts-1"
        THEN [model |-> "tts-1",
              voice |-> IF reqVoice \in kokoroVoices THEN reqVoice ELSE "af_nova",
              actualModel |-> "tts-1"]
        ELSE IF model = "tts-1-piper"
        THEN LET voice == IF reqVoice # "" THEN reqVoice ELSE "en_US-ryan-medium"
             IN  [model |-> "tts-1-piper",
                  voice |-> voice,
                  actualModel |-> "speaches-ai/piper-" \o voice]
        ELSE [model |-> "tts-1", voice |-> "af_nova", actualModel |-> "tts-1"]

\* Mutant: a model name that is neither keyword is forwarded with the
\* client's voice.
NormalizeVoice_UnknownPassThrough(reqModel, reqVoice) ==
    LET model == IF reqModel = "" THEN "tts-1" ELSE reqModel
    IN  IF model = "tts-1"
        THEN [model |-> "tts-1",
              voice |-> IF reqVoice \in kokoroVoices THEN reqVoice ELSE "af_nova",
              actualModel |-> "tts-1"]
        ELSE IF model = "tts-1-piper"
        THEN LET voice == IF reqVoice \in piperVoices THEN reqVoice
                          ELSE "en_US-ryan-medium"
             IN  [model |-> "tts-1-piper",
                  voice |-> voice,
                  actualModel |-> "speaches-ai/piper-" \o voice]
        ELSE [model |-> model, voice |-> reqVoice, actualModel |-> model]

\* Mutant: the model keyword returned is the canonical model id.
NormalizeVoice_ReturnsCanonicalId(reqModel, reqVoice) ==
    LET model == IF reqModel = "" THEN "tts-1" ELSE reqModel
    IN  IF model = "tts-1"
        THEN [model |-> "tts-1",
              voice |-> IF reqVoice \in kokoroVoices THEN reqVoice ELSE "af_nova",
              actualModel |-> "tts-1"]
        ELSE IF model = "tts-1-piper"
        THEN LET voice == IF reqVoice \in piperVoices THEN reqVoice
                          ELSE "en_US-ryan-medium"
             IN  [model |-> "speaches-ai/piper-" \o voice,
                  voice |-> voice,
                  actualModel |-> "speaches-ai/piper-" \o voice]
        ELSE [model |-> "tts-1", voice |-> "af_nova", actualModel |-> "tts-1"]

\* The model default, then the voice validation and the canonical model id.
NormalizeVoice(reqModel, reqVoice) ==
    LET model == IF reqModel = "" THEN "tts-1" ELSE reqModel
    IN  IF model = "tts-1"
        THEN [model |-> "tts-1",
              voice |-> IF reqVoice \in kokoroVoices THEN reqVoice ELSE "af_nova",
              actualModel |-> "tts-1"]
        ELSE IF model = "tts-1-piper"
        THEN LET voice == IF reqVoice \in piperVoices THEN reqVoice
                          ELSE "en_US-ryan-medium"
             IN  [model |-> "tts-1-piper",
                  voice |-> voice,
                  actualModel |-> "speaches-ai/piper-" \o voice]
        ELSE [model |-> "tts-1", voice |-> "af_nova", actualModel |-> "tts-1"]

\* Mutant: the variable is used as it is, without the default.
BaseURL_NoDefault(e) == e

\* os.Getenv("SPEACHES_URL") with the default.
BaseURL(e) == IF e = "" THEN "http://localhost:8000" ELSE e

\* The JSON payload of the speech request.
SpeechRequest(base, actualModel, text, voice) ==
    [call |-> "speech", method |-> "POST",
     url |-> base \o "/v1/audio/speech",
     ctype |-> "application/json",
     payload |-> [model |-> actualModel, input |-> text, voice |-> voice]]

\* Mutant: the install URL carries the model id without URL-encoding the '/'.
TTSInstallRequest_Unencoded(base, voice) ==
    [call |-> "install", method |-> "POST",
     url |-> base \o "/v1/models/" \o "speaches-ai/piper-" \o voice,
     ctype |-> "application/json",
     payload |-> [none |-> TRUE]]

\* The install request handleTTS issues for a piper voice.
TTSInstallRequest(base, voice) ==
    [call |-> "install", method |-> "POST",
     url |-> base \o "/v1/models/" \o "speaches-ai%2Fpiper-" \o voice,
     ctype |-> "application/json",
     payload |-> [none |-> TRUE]]

\* Mutant: the missing-model check forgets the model family.
TTSMissingModel_AnyFamily(model, body) ==
    Contains(body, "is not installed locally")
    \/ (Contains(body, "Model") /\ Contains(body, "not found"))

\* Mutant: the words of the signature are matched in either case.
TTSMissingModel_AnyCase(model, body) ==
    model = "tts-1-piper"
    /\ (Contains(body, "is not installed locally")
        \/ ((Contains(body, "Model") \/ Contains(body, "model"))
            /\ Contains(body, "not found")))

\* The condition under which handleTTS installs the model after a non-200.
TTSMissingModel(model, body) ==
    model = "tts-1-piper"
    /\ (Contains(body, "is not installed locally")
        \/ (Contains(body, "Model") /\ Contains(body, "not found")))

\* Mutant: the body is inspected whatever the status.
TTSAfterCall1_IgnoreStatus(model, first) ==
    IF first.err THEN "unavailable"
    ELSE IF TTSMissingModel(model, first.body) THEN "install"
    ELSE IF first.status # 200 THEN "error"
    ELSE "stream"

\* What handleTTS does with the first call's outcome.
TTSAfterCall1(model, first) ==
    IF first.err THEN "unavailable"
    ELSE IF first.status # 200
         THEN IF TTSMissingModel(model, first.body) THEN "install" ELSE "error"
         ELSE "stream"

\* Mutant: the retry is issued whether or not the install call went through.
TTSAfterInstall_AlwaysRetry(download) == "retry"

\* Mutant: the retry is issued only when the install call answered 200.
TTSAfterInstall_CheckStatus(download) ==
    IF ~download.err /\ download.status = 200 THEN "retry" ELSE "error"

\* What handleTTS does with the install call's outcome.
TTSAfterInstall(download) ==
    IF ~download.err THEN "retry" ELSE "error"

\* Mutant: a failed retry reports the retry's own status and body.
TTSAfterRetry_RetryError(first, second) ==
    IF second.err
    THEN JSONError(503, "Failed to generate speech after downloading model")
    ELSE IF second.status = 200
         THEN AudioStream(second.body)
         ELSE OriginalError(second)

\* Mutant: whatever the retried call answered is streamed as audio.
TTSAfterRetry_StreamWhatever(first, second) ==
    IF second.err
    THEN JSONError(503, "Failed to generate speech after downloading model")
    ELSE AudioStream(second.body)

\* The response of handleTTS once the retried call has returned.
TTSAfterRetry(first, second) ==
    IF second.err
    THEN JSONError(503, "Failed to generate speech after downloading model")
    ELSE IF second.status = 200
         THEN AudioStream(second.body)
         ELSE OriginalError(first)

\* The locals of a handler that has not run yet.
NoLocals ==
    [model |-> "", voice |-> "", language |-> "", audioData |-> "",
     filename |-> "", base |-> "", request |-> [call |-> "none"]]

\* The handler answers the client without an outbound call in flight.
Respond(r, response) ==
    /\ resp' = [resp EXCEPT ![r] = response]
    /\ pc' = [pc EXCEPT ![r] = "done"]
    /\ log' = [log EXCEPT ![r] = Append(@, "respond")]
    /\ UNCHANGED <<sent, ret>>

\* The handler issues its first outbound call and blocks on it.
Issue(r, what, request) ==
    /\ sent' = [sent EXCEPT ![r] = Append(@, request)]
    /\ pc' = [pc EXCEPT ![r] = what]
    /\ log' = [log EXCEPT ![r] = Append(@, "send:" \o what)]
    /\ UNCHANGED <<resp, ret>>

\* Mutant: the response is kept in a variable all the requests share.
ReturnRespond_Shared(r, outcome, response) ==
    /\ ret' = [ret EXCEPT ![r] = Append(@, outcome)]
    /\ resp' = [q \in Slots |-> response]
    /\ log' = [log EXCEPT ![r] = @ \o <<"ret:" \o pc[r], "respond">>]
    /\ pc' = [pc EXCEPT ![r] = "done"]
    /\ UNCHANGED sent

\* The call the handler is blocked on returns and the handler answers the client.
ReturnRespond(r, outcome, response) ==
    /\ ret' = [ret EXCEPT ![r] = Append(@, outcome)]
    /\ resp' = [resp EXCEPT ![r] = response]
    /\ log' = [log EXCEPT ![r] = @ \o <<"ret:" \o pc[r], "respond">>]
    /\ pc' = [pc EXCEPT ![r] = "done"]
    /\ UNCHANGED sent

\* The call the handler is blocked on returns and the handler issues the next one.
ReturnIssue(r, outcome, what, request) ==
    /\ ret' = [ret EXCEPT ![r] = Append(@, outcome)]
    /\ sent' = [sent EXCEPT ![r] = Append(@, request)]
    /\ log' = [log EXCEPT ![r] = @ \o <<"ret:" \o pc[r], "send:" \o what>>]
    /\ pc' = [pc EXCEPT ![r] = what]
    /\ UNCHANGED resp

\* handleTTS from its entry to the first speech call.
TTSStart(r) ==
    /\ pc[r] = "idle"
    /\ \E jsonOK \in BOOLEAN, text \in Texts, m \in ClientModels, v \in ClientVoices :
         /\ kind' = [kind EXCEPT ![r] = "tts"]
         /\ inp' = [inp EXCEPT ![r] = [jsonOK |-> jsonOK, text |-> text,
                                        model |-> m, voice |-> v]]
         /\ IF BindJSONFails(jsonOK, text)
            THEN /\ Respond(r, JSONError(400, "text field is required"))
                 /\ UNCHANGED loc
            ELSE IF text = ""
            THEN /\ Respond(r, JSONError(400, "text cannot be empty"))
                 /\ UNCHANGED loc
            ELSE LET n == NormalizeVoice(m, v)
                     base == BaseURL(env)
                     jsonPayload == SpeechRequest(base, n.actualModel, text, n.voice)
                 IN  /\ loc' = [loc EXCEPT ![r] =
                                  [NoLocals EXCEPT !.model = n.model,
                                                   !.voice = n.voice,
                                                   !.base = base,
                                                   !.request = jsonPayload]]
                     /\ Issue(r, "call1", jsonPayload)
    /\ UNCHANGED world

\* Mutant: the install call is fired without waiting for it, and the retry
\* is issued at once.
TTSCall1Return_FireAndForget(r) ==
    /\ pc[r] = "call1" /\ kind[r] = "tts"
    /\ \E first \in Outcomes(sent[r][1].url) :
         LET next == TTSAfterCall1(loc[r].model, first)
         IN  CASE next = "unavailable" ->
                    ReturnRespond(r, first, JSONError(503,
                        "speaches.ai server is not available. Make sure it's running on localhost:8000"))
               [] next = "install" ->
                    /\ ret' = [ret EXCEPT ![r] = Append(@, first)]
                    /\ sent' = [sent EXCEPT ![r] =
                                  @ \o <<TTSInstallRequest(loc[r].base, loc[r].voice),
                                         loc[r].request>>]
                    /\ log' = [log EXCEPT ![r] =
                                 @ \o <<"ret:call1", "send:install", "send:call2">>]
                    /\ pc' = [pc EXCEPT ![r] = "call2"]
                    /\ UNCHANGED resp
               [] next = "error" ->
                    ReturnRespond(r, first, OriginalError(first))
               [] next = "stream" ->
                    ReturnRespond(r, first, AudioStream(first.body))
    /\ UNCHANGED <<world, kind, inp, loc>>

\* Mutant: a 200 whose audio cannot be copied to a client that is gone counts
\* as a failed attempt: the model is installed and the request replayed.
TTSCall1Return_RetryOnCopyError(r) ==
    /\ pc[r] = "call1" /\ kind[r] = "tts"
    /\ \E first \in Outcomes(sent[r][1].url) :
         LET next == TTSAfterCall1(loc[r].model, first)
         IN  CASE next = "unavailable" ->
                    ReturnRespond(r, first, JSONError(503,
                        "speaches.ai server is not available. Make sure it's running on localhost:8000"))
               [] next = "install" ->
                    ReturnIssue(r, first, "install",
                                TTSInstallRequest(loc[r].base, loc[r].voice))
               [] next = "error" ->
                    ReturnRespond(r, first, OriginalError(first))
               [] next = "stream" ->
                    IF client[r] = "gone"
                    THEN ReturnIssue(r, first, "install",
                                     TTSInstallRequest(loc[r].base, loc[r].voice))
                    ELSE ReturnRespond(r, first, AudioStream(first.body))
    /\ UNCHANGED <<world, kind, inp, loc>>

\* handleTTS from the return of the first speech call.
TTSCall1Return(r) ==
    /\ pc[r] = "call1" /\ kind[r] = "tts"
    /\ \E first \in Outcomes(sent[r][1].url) :
         LET next == TTSAfterCall1(loc[r].model, first)
         IN  CASE next = "unavailable" ->
                    ReturnRespond(r, first, JSONError(503,
                        "speaches.ai server is not available. Make sure it's running on localhost:8000"))
               [] next = "install" ->
                    ReturnIssue(r, first, "install",
                                TTSInstallRequest(loc[r].base, loc[r].voice))
               [] next = "error" ->
                    ReturnRespond(r, first, OriginalError(first))
               [] next = "stream" ->
                    ReturnRespond(r, first, AudioStream(first.body))
    /\ UNCHANGED <<world, kind, inp, loc>>

\* Mutant: when the install call fails the handler returns without writing
\* a response.
TTSInstallReturn_Silent(r) ==
    /\ pc[r] = "install" /\ kind[r] = "tts"
    /\ \E download \in InstallOutcomes(sent[r][2].url) :
         LET next == TTSAfterInstall(download)
         IN  CASE next = "retry" ->
                    ReturnIssue(r, download, "call2", loc[r].request)
               [] next = "error" ->
                    /\ ret' = [ret EXCEPT ![r] = Append(@, download)]
                    /\ log' = [log EXCEPT ![r] = Append(@, "ret:install")]
                    /\ pc' = [pc EXCEPT ![r] = "done"]
                    /\ UNCHANGED <<sent, resp>>
    /\ UNCHANGED <<world, kind, inp, loc>>

\* Mutant: the retry is sent to the base URL the environment names when the
\* install call has returned.
TTSInstallReturn_RereadEnv(r) ==
    /\ pc[r] = "install" /\ kind[r] = "tts"
    /\ \E download \in InstallOutcomes(sent[r][2].url) :
         LET next == TTSAfterInstall(download)
         IN  CASE next = "retry" ->
                    ReturnIssue(r, download, "call2",
                                [loc[r].request EXCEPT
                                   !.url = BaseURL(env) \o "/v1/audio/speech"])
               [] next = "error" ->
                    ReturnRespond(r, download, OriginalError(ret[r][1]))
    /\ UNCHANGED <<world, kind, inp, loc>>

\* handleTTS from the return of the install call.
TTSInstallReturn(r) ==
    /\ pc[r] = "install" /\ kind[r] = "tts"
    /\ \E download \in InstallOutcomes(sent[r][2].url) :
         LET next == TTSAfterInstall(download)
         IN  CASE next = "retry" ->
                    ReturnIssue(r, download, "call2", loc[r].request)
               [] next = "error" ->
                    ReturnRespond(r, download, OriginalError(ret[r][1]))
    /\ UNCHANGED <<world, kind, inp, loc>>

\* Mutant: a retry that fails on a missing model installs and retries again.
TTSCall2Return_Loop(r) ==
    /\ pc[r] = "call2" /\ kind[r] = "tts"
    /\ \E second \in Outcomes(sent[r][3].url) :
         IF TTSAfterCall1(loc[r].model, second) = "install"
         THEN ReturnIssue(r, second, "install",
                          TTSInstallRequest(loc[r].base, loc[r].voice))
         ELSE ReturnRespond(r, second, TTSAfterRetry(ret[r][1], second))
    /\ UNCHANGED <<world, kind, inp, loc>>

\* handleTTS from the return of the retried speech call.
TTSCall2Return(r) ==
    /\ pc[r] = "call2" /\ kind[r] = "tts"
    /\ \E second \in Outcomes(sent[r][3].url) :
         ReturnRespond(r, second, TTSAfterRetry(ret[r][1], second))
    /\ UNCHANGED <<world, kind, inp, loc>>

----------------------------------------------------------------------------
(* handleSTT *)

validLanguages == {"en", "es", "fr", "de", "it", "pt", "ja", "ko", "zh"}

validModels == {"fast", "standard", "accurate"}

\* Mutant: the client's language is forwarded as given.
ValidateLanguage_PassThrough(language) == language

\* The language validation.
ValidateLanguage(language) ==
    IF language \in validLanguages THEN language ELSE "en"

\* The quality tier validation.
ValidateModel(model) ==
    IF model \in validModels THEN model ELSE "standard"

\* The multipart body of the transcription request: the file part, the
\* language field and the model field; modelValue is always "whisper-1".
TranscriptionRequest(base, audioData, filename, language) ==
    [call |-> "transcriptions", method |-> "POST",
     url |-> base \o "/v1/audio/transcriptions",
     ctype |-> "multipart/form-data",
     payload |-> [file |-> audioData, filename |-> filename,
                  language |-> language, model |-> "whisper-1"]]

\* The install request handleSTT issues.
STTInstallRequest(base) ==
    [call |-> "install", method |-> "POST",
     url |-> base \o "/v1/models/whisper-1",
     ctype |-> "application/json",
     payload |-> [none |-> TRUE]]

\* Mutant: "not found" alone counts as a missing model.
STTMissingModel_NotFoundAlone(body) ==
    Contains(body, "is not installed locally") \/ Contains(body, "not found")

\* The condition under which handleSTT installs the model after a non-200.
STTMissingModel(body) ==
    Contains(body, "is not installed locally")
    \/ (Contains(body, "Model") /\ Contains(body, "not found"))

\* json.NewDecoder(body).Decode(&result) for the bodies a backend sends here:
\* an object with a string "text", an empty object or null decode; anything
\* else is an error and leaves result.Text empty.
JSONDecodeText(body) ==
    LET prefix == "{\"text\":\""
        suffix == "\"}"
        n == Len(body)
        inner == SubSeq(body, Len(prefix) + 1, n - Len(suffix))
    IN  IF body \in {"{}", "null"} THEN [ok |-> TRUE, text |-> ""]
        ELSE IF /\ n >= Len(prefix) + Len(suffix)
                /\ SubSeq(body, 1, Len(prefix)) = prefix
                /\ SubSeq(body, n - Len(suffix) + 1, n) = suffix
                /\ \A i \in 1..Len(inner) : SubSeq(inner, i, i) \notin {"\"", "\\"}
        THEN [ok |-> TRUE, text |-> inner]
        ELSE [ok |-> FALSE, text |-> ""]

\* Mutant: a connection failure of the first call starts the recovery.
STTAfterCall1_RecoverOnNetErr(first) ==
    IF first.err THEN "install"
    ELSE IF first.status # 200
         THEN IF STTMissingModel(first.body) THEN "install" ELSE "error"
         ELSE "decode"

\* What handleSTT does with the first call's outcome.
STTAfterCall1(first) ==
    IF first.err THEN "unavailable"
    ELSE IF first.status # 200
         THEN IF STTMissingModel(first.body) THEN "install" ELSE "error"
         ELSE "decode"

\* Mutant: the install call is made but the request is never replayed.
STTAfterInstall_NoRetry(download, url) == "error"

\* What handleSTT does with the install call's outcome: the retry request is
\* built from the same URL as the first one.
STTAfterInstall(download, url) ==
    IF ~download.err
    THEN IF ValidURL(url) THEN "retry" ELSE "error"
    ELSE "error"

\* The response of handleSTT to a 200 on the first call.
STTSuccess(first) ==
    LET result == JSONDecodeText(first.body)
    IN  IF ~result.ok
        THEN JSONError(500, "failed to decode transcription response")
        ELSE JSONText(result.text)

\* Mutant: a retry that fails at the network level answers 503, as handleTTS does.
STTAfterRetry_Unavailable(first, second) ==
    IF second.err
    THEN JSONError(503, "Failed to transcribe after downloading model")
    ELSE IF second.status = 200
         THEN JSONText(JSONDecodeText(second.body).text)
         ELSE OriginalError(first)

\* The response of handleSTT once the retried call has returned.
STTAfterRetry(first, second) ==
    IF ~second.err /\ second.status = 200
    THEN JSONText(JSONDecodeText(second.body).text)
    ELSE OriginalError(first)

\* Mutant: the error of c.FormFile is dropped and the request goes on with
\* an empty upload.
STTStart_NoFileCheck(r) ==
    /\ pc[r] = "idle"
    /\ \E lang \in ClientLanguages, tier \in ClientTiers, file \in FileStates,
          audio \in AudioBlobs, name \in FileNames :
         LET language == ValidateLanguage(DefaultPostForm(lang, "en"))
             model == ValidateModel(DefaultPostForm(tier, "standard"))
             base == BaseURL(env)
             audioData == IF file = "missing" THEN "" ELSE audio
             request == TranscriptionRequest(base, audioData, name, language)
         IN  /\ kind' = [kind EXCEPT ![r] = "stt"]
             /\ inp' = [inp EXCEPT ![r] = [language |-> lang, tier |-> tier,
                                            file |-> file, audio |-> audio,
                                            filename |-> name]]
             /\ IF file = "openerr"
                THEN /\ Respond(r, JSONError(400, "failed to open audio file"))
                     /\ UNCHANGED loc
                ELSE IF file = "readerr"
                THEN /\ Respond(r, JSONError(500, "failed to read audio file"))
                     /\ UNCHANGED loc
                ELSE IF ~ValidURL(request.url)
                THEN /\ Respond(r, JSONError(500, "failed to create request"))
                     /\ UNCHANGED loc
                ELSE /\ loc' = [loc EXCEPT ![r] =
                                  [NoLocals EXCEPT !.model = model,
                                                   !.language = language,
                                                   !.audioData = audioData,
                                                   !.filename = name,
                                                   !.base = base,
                                                   !.request = request]]
                     /\ Issue(r, "call1", request)
    /\ UNCHANGED world

\* Mutant: the quality tier selects the transcription model.
STTStart_TierSelectsModel(r) ==
    /\ pc[r] = "idle"
    /\ \E lang \in ClientLanguages, tier \in ClientTiers, file \in FileStates,
          audio \in AudioBlobs, name \in FileNames :
         LET language == ValidateLanguage(DefaultPostForm(lang, "en"))
             model == ValidateModel(DefaultPostForm(tier, "standard"))
             base == BaseURL(env)
             request ==
                 [TranscriptionRequest(base, audio, name, language)
                    EXCEPT !.payload.model =
                             IF model = "fast" THEN "whisper-tiny" ELSE "whisper-1"]
         IN  /\ kind' = [kind EXCEPT ![r] = "stt"]
             /\ inp' = [inp EXCEPT ![r] = [language |-> lang, tier |-> tier,
                                            file |-> file, audio |-> audio,
                                            filename |-> name]]
             /\ IF file = "missing"
                THEN /\ Respond(r, JSONError(400, "audio file is required"))
                     /\ UNCHANGED loc
                ELSE IF file = "openerr"
                THEN /\ Respond(r, JSONError(400, "failed to open audio file"))
                     /\ UNCHANGED loc
                ELSE IF file = "readerr"
                THEN /\ Respond(r, JSONError(500, "failed to read audio file"))
                     /\ UNCHANGED loc
                ELSE IF ~ValidURL(request.url)
                THEN /\ Respond(r, JSONError(500, "failed to create request"))
                     /\ UNCHANGED loc
                ELSE /\ loc' = [loc EXCEPT ![r] =
                                  [NoLocals EXCEPT !.model = model,
                                                   !.language = language,
                                                   !.audioData = audio,
                                                   !.filename = name,
                                                   !.base = base,
                                                   !.request = request]]
                     /\ Issue(r, "call1", request)
    /\ UNCHANGED world

\* handleSTT from its entry to the first transcription call.
STTStart(r) ==
    /\ pc[r] = "idle"
    /\ \E lang \in ClientLanguages, tier \in ClientTiers, file \in FileStates,
          audio \in AudioBlobs, name \in FileNames :
         LET language == ValidateLanguage(DefaultPostForm(lang, "en"))
             model == ValidateModel(DefaultPostForm(tier, "standard"))
             base == BaseURL(env)
             request == TranscriptionRequest(base, audio, name, language)
         IN  /\ kind' = [kind EXCEPT ![r] = "stt"]
             /\ inp' = [inp EXCEPT ![r] = [language |-> lang, tier |-> tier,
                                            file |-> file, audio |-> audio,
                                            filename |-> name]]
             /\ IF file = "missing"
                THEN /\ Respond(r, JSONError(400, "audio file is required"))
                     /\ UNCHANGED loc
                ELSE IF file = "openerr"
                THEN /\ Respond(r, JSONError(400, "failed to open audio file"))
                     /\ UNCHANGED loc
                ELSE IF file = "readerr"
                THEN /\ Respond(r, JSONError(500, "failed to read audio file"))
                     /\ UNCHANGED loc
                ELSE IF ~ValidURL(request.url)
                THEN /\ Respond(r, JSONError(500, "failed to create request"))
                     /\ UNCHANGED loc
                ELSE /\ loc' = [loc EXCEPT ![r] =
                                  [NoLocals EXCEPT !.model = model,
                                                   !.language = language,
                                                   !.audioData = audio,
                                                   !.filename = name,
                                                   !.base = base,
                                                   !.request = request]]
                     /\ Issue(r, "call1", request)
    /\ UNCHANGED world

\* handleSTT from the return of the first transcription call.
STTCall1Return(r) ==
    /\ pc[r] = "call1" /\ kind[r] = "stt"
    /\ \E first \in Outcomes(sent[r][1].url) :
         LET next == STTAfterCall1(first)
         IN  CASE next = "unavailable" ->
                    ReturnRespond(r, first, JSONError(503,
                        "speaches.ai server is not available. Make sure it's running on localhost:8000"))
               [] next = "install" ->
                    ReturnIssue(r, first, "install", STTInstallRequest(loc[r].base))
               [] next = "error" ->
                    ReturnRespond(r, first, OriginalError(first))
               [] next = "decode" ->
                    ReturnRespond(r, first, STTSuccess(first))
    /\ UNCHANGED <<world, kind, inp, loc>>

\* Mutant: the rebuilt request carries the default language, not the validated one.
STTInstallReturn_RetryEnglish(r) ==
    /\ pc[r] = "install" /\ kind[r] = "stt"
    /\ \E download \in InstallOutcomes(sent[r][2].url) :
         LET next == STTAfterInstall(download, sent[r][1].url)
         IN  CASE next = "retry" ->
                    ReturnIssue(r, download, "call2",
                                TranscriptionRequest(loc[r].base, loc[r].audioData,
                                                     loc[r].filename, "en"))
               [] next = "error" ->
                    ReturnRespond(r, download, OriginalError(ret[r][1]))
    /\ UNCHANGED <<world, kind, inp, loc>>

\* handleSTT from the return of the install call.
STTInstallReturn(r) ==
    /\ pc[r] = "install" /\ kind[r] = "stt"
    /\ \E download \in InstallOutcomes(sent[r][2].url) :
         LET next == STTAfterInstall(download, sent[r][1].url)
         IN  CASE next = "retry" ->
                    ReturnIssue(r, download, "call2",
                                TranscriptionRequest(loc[r].base, loc[r].audioData,
                                                     loc[r].filename, loc[r].language))
               [] next = "error" ->
                    ReturnRespond(r, download, OriginalError(ret[r][1]))
    /\ UNCHANGED <<world, kind, inp, loc>>

\* handleSTT from the return of the retried transcription call.
STTCall2Return(r) ==
    /\ pc[r] = "call2" /\ kind[r] = "stt"
    /\ \E second \in Outcomes(sent[r][3].url) :
         ReturnRespond(r, second, STTAfterRetry(ret[r][1], second))
    /\ UNCHANGED <<world, kind, inp, loc>>

----------------------------------------------------------------------------
(* The catalogue handlers *)

\* A catalogue handler takes an idle request slot, which is then "other" for
\* handleTTS and handleSTT, and keeps its own state in cat.
NoCatalogue ==
    [pc |-> "idle", kind |-> "none", inp |-> [none |-> TRUE], base |-> "",
     sent |-> <<>>, ret |-> <<>>, resp |-> NoResponse,
     tts |-> <<>>, stt |-> <<>>, models |-> <<>>, installed |-> {}]

\* The model ids a client asks handleInstallModel to install.
RequestedModelIDs ==
    IF scope = "wide" THEN {"", "whisper-1", "speaches-ai/piper-en_US-amy-low"}
    ELSE {"whisper-1"}

\* What the backend can answer to POST /v1/models/<id>.
InstallEndpointStatuses == IF scope = "wide" THEN {200, 201, 404, 500} ELSE {200}
InstallEndpointBodies == IF scope = "wide" THEN {"", "Model xyz not found"} ELSE {""}

\* The outcomes of the call of handleInstallModel: no response, or a response
\* whose body io.ReadAll can or cannot read to its end.
InstallEndpointOutcomes(url) ==
    IF ValidURL(url)
    THEN {NetErr} \cup
         {[err |-> FALSE, status |-> s, body |-> b, readerr |-> e] :
            s \in InstallEndpointStatuses, b \in InstallEndpointBodies,
            e \in BOOLEAN}
    ELSE {NetErr}

\* c.JSON(http.StatusOK, gin.H{"success": true, "message": ...})
JSONSuccess ==
    [status |-> 200, ctype |-> "application/json", disp |-> "", error |-> "",
     body |-> "Model installed successfully"]

\* The request handleInstallModel posts.
InstallModelRequest(base, id) ==
    [call |-> "install", method |-> "POST",
     url |-> base \o "/v1/models/" \o id,
     ctype |-> "application/json",
     payload |-> [none |-> TRUE]]

\* Mutant: the endpoint reports success after any network round trip, as the
\* install trigger of the gateway does.
InstallModelAfterCall_IgnoreStatus(outcome) ==
    IF outcome.err
    THEN JSONError(503, "speaches.ai server is not available")
    ELSE JSONSuccess

\* The response of handleInstallModel once its call has returned.
InstallModelAfterCall(outcome) ==
    IF outcome.err
    THEN JSONError(503, "speaches.ai server is not available")
    ELSE IF outcome.readerr
    THEN JSONError(500, "failed to read server response")
    ELSE IF outcome.status # 200 /\ outcome.status # 201
    THEN JSONError(outcome.status, "Failed to install model: " \o outcome.body)
    ELSE JSONSuccess

\* handleInstallModel from its entry to its call.
InstallModelStart(r) ==
    /\ pc[r] = "idle"
    /\ \E jsonOK \in BOOLEAN, id \in RequestedModelIDs :
         LET base == BaseURL(env)
             started == [NoCatalogue EXCEPT
                           !.kind = "install",
                           !.inp = [jsonOK |-> jsonOK, model_id |-> id]]
         IN  cat' = [cat EXCEPT ![r] =
                       IF BindJSONFails(jsonOK, id)
                       THEN [started EXCEPT
                               !.pc = "done",
                               !.resp = JSONError(400, "model_id is required")]
                       ELSE [started EXCEPT
                               !.pc = "call1",
                               !.base = base,
                               !.sent = <<InstallModelRequest(base, id)>>]]
    /\ pc' = [pc EXCEPT ![r] = "other"]
    /\ UNCHANGED <<env, client, scope, gateway>>

\* handleInstallModel from the return of its call.
InstallModelReturn(r) ==
    /\ cat[r].kind = "install" /\ cat[r].pc = "call1"
    /\ \E outcome \in InstallEndpointOutcomes(cat[r].sent[1].url) :
         cat' = [cat EXCEPT ![r] =
                   [@ EXCEPT !.pc = "done",
                             !.ret = Append(@, outcome),
                             !.resp = InstallModelAfterCall(outcome)]]
    /\ UNCHANGED <<env, client, scope, pc, gateway>>

\* The ids of the models the backend lists as installed.
ModelIDs ==
    IF scope = "wide"
    THEN {"tts-1", "whisper-1", "Whisper-Large", "my-speech-model", "transcription-x"}
    ELSE {"whisper-1"}

\* The entries of the backend's registry: an id and a type, which may be empty.
RegistryItems ==
    IF scope = "wide"
    THEN {[id |-> "whisper-1", type |-> ""], [id |-> "tts-1", type |-> ""],
          [id |-> "custom", type |-> "stt"]}
    ELSE {[id |-> "whisper-1", type |-> ""]}

RECURSIVE ListsUpTo(_, _)
ListsUpTo(items, n) ==
    IF n = 0 THEN {<<>>}
    ELSE LET shorter == ListsUpTo(items, n - 1)
         IN  shorter \cup {Append(l, x) : l \in shorter, x \in items}

ListStatuses == IF scope = "wide" THEN {200, 404} ELSE {200}

\* The longest list enumerated: MaxModels for one request, one model otherwise.
LongestList == IF scope = "wide" THEN MaxModels ELSE 1

\* The outcomes of a GET that answers a JSON object with a "data" list: no
\* response, or a status with a body that json decoding rejects or turns into
\* the list data.
ListOutcomes(url, items) ==
    IF ValidURL(url)
    THEN {NetErr}
         \cup {[err |-> FALSE, status |-> s, decodes |-> FALSE, data |-> <<>>] :
                 s \in ListStatuses}
         \cup {[err |-> FALSE, status |-> s, decodes |-> TRUE, data |-> l] :
                 s \in ListStatuses, l \in ListsUpTo(items, LongestList)}
    ELSE {NetErr}

\* A GET the catalogue handlers issue.
GetRequest(base, what) ==
    [call |-> what, method |-> "GET",
     url |-> base \o (IF what = "models" THEN "/v1/models" ELSE "/v1/registry"),
     ctype |-> "", payload |-> [none |-> TRUE]]

\* c.JSON(http.StatusOK, ...) with the lists of the handler.
JSONLists ==
    [status |-> 200, ctype |-> "application/json", disp |-> "", error |-> "",
     body |-> ""]

\* Mutant: only whisper models are speech-to-text models.
isSTTModel_WhisperOnly(modelID) == Contains(modelID, "whisper")

isSTTModel(modelID) ==
    \/ Contains(modelID, "whisper")
    \/ Contains(modelID, "speech")
    \/ Contains(modelID, "transcription")

isTTSModel(modelID) == ~isSTTModel(modelID)

\* The response and the two lists of handleGetModels once its call has
\* returned.  Of each entry the id is modelled; the display name, the
\* installed flag and the owner are not.
GetModelsAfterCall(outcome) ==
    IF outcome.err
    THEN [resp |-> JSONError(503, "speaches.ai server is not available"),
          tts |-> <<>>, stt |-> <<>>]
    ELSE IF outcome.status # 200 \/ ~outcome.decodes
    THEN [resp |-> JSONLists, tts |-> <<>>, stt |-> <<>>]
    ELSE [resp |-> JSONLists,
          tts |-> SelectSeq(outcome.data, isTTSModel),
          stt |-> SelectSeq(outcome.data, isSTTModel)]

\* handleGetModels from its entry to its call.
GetModelsStart(r) ==
    /\ pc[r] = "idle"
    /\ LET base == BaseURL(env)
       IN  cat' = [cat EXCEPT ![r] =
                     [NoCatalogue EXCEPT !.kind = "models",
                                         !.pc = "call1",
                                         !.base = base,
                                         !.sent = <<GetRequest(base, "models")>>]]
    /\ pc' = [pc EXCEPT ![r] = "other"]
    /\ UNCHANGED <<env, client, scope, gateway>>

\* handleGetModels from the return of its call.
GetModelsReturn(r) ==
    /\ cat[r].kind = "models" /\ cat[r].pc = "call1"
    /\ \E outcome \in ListOutcomes(cat[r].sent[1].url, ModelIDs) :
         LET after == GetModelsAfterCall(outcome)
         IN  cat' = [cat EXCEPT ![r] =
                       [@ EXCEPT !.pc = "done",
                                 !.ret = Append(@, outcome),
                                 !.resp = after.resp,
                                 !.tts = after.tts,
                                 !.stt = after.stt]]
    /\ UNCHANGED <<env, client, scope, pc, gateway>>

\* The hardcoded list handleGetRegistryModels falls back to.
fallbackModels ==
    <<[id |-> "tts-1", type |-> "tts"],
      [id |-> "speaches-ai/piper-en_US-ryan-high", type |-> "tts"],
      [id |-> "speaches-ai/piper-en_US-ryan-medium", type |-> "tts"],
      [id |-> "speaches-ai/piper-en_US-ryan-low", type |-> "tts"],
      [id |-> "speaches-ai/piper-en_US-amy-medium", type |-> "tts"],
      [id |-> "speaches-ai/piper-en_US-hfc_female-medium", type |-> "tts"],
      [id |-> "speaches-ai/piper-en_US-lessac-high", type |-> "tts"],
      [id |-> "whisper-1", type |-> "stt"]>>

\* The installed set handleGetRegistryModels builds from the first call.
InstalledSet(outcome) ==
    IF ~outcome.err /\ outcome.status = 200 /\ outcome.decodes
    THEN {outcome.data[i] : i \in 1..Len(outcome.data)}
    ELSE {}

\* An entry of the registry with its type, inferred from the id when empty.
RegistryEntry(item) ==
    [id |-> item.id,
     type |-> IF item.type # "" THEN item.type
              ELSE IF isSTTModel(item.id) THEN "stt" ELSE "tts"]

\* Mutant: a registry that gives nothing leaves the list empty.
RegistryModels_NoFallback(outcome) ==
    IF ~outcome.err /\ outcome.status = 200 /\ outcome.decodes
    THEN [i \in 1..Len(outcome.data) |-> RegistryEntry(outcome.data[i])]
    ELSE <<>>

\* The model list handleGetRegistryModels answers with.  Of each entry the id
\* and the type are modelled; the name and the description are not.
RegistryModels(outcome) ==
    LET registryModels ==
            IF ~outcome.err /\ outcome.status = 200 /\ outcome.decodes
            THEN [i \in 1..Len(outcome.data) |-> RegistryEntry(outcome.data[i])]
            ELSE <<>>
    IN  IF Len(registryModels) = 0 THEN fallbackModels ELSE registryModels

\* handleGetRegistryModels from its entry to the call for the installed models.
GetRegistryStart(r) ==
    /\ pc[r] = "idle"
    /\ LET base == BaseURL(env)
       IN  cat' = [cat EXCEPT ![r] =
                     [NoCatalogue EXCEPT !.kind = "registry",
                                         !.pc = "call1",
                                         !.base = base,
                                         !.sent = <<GetRequest(base, "models")>>]]
    /\ pc' = [pc EXCEPT ![r] = "other"]
    /\ UNCHANGED <<env, client, scope, gateway>>

\* handleGetRegistryModels from the return of the call for the installed
\* models to the call for the registry.
GetRegistryInstalledReturn(r) ==
    /\ cat[r].kind = "registry" /\ cat[r].pc = "call1"
    /\ \E outcome \in ListOutcomes(cat[r].sent[1].url, ModelIDs) :
         cat' = [cat EXCEPT ![r] =
                   [@ EXCEPT !.pc = "call2",
                             !.ret = Append(@, outcome),
                             !.installed = InstalledSet(outcome),
                             !.sent = Append(@, GetRequest(cat[r].base, "registry"))]]
    /\ UNCHANGED <<env, client, scope, pc, gateway>>

\* handleGetRegistryModels from the return of the call for the registry.
GetRegistryReturn(r) ==
    /\ cat[r].kind = "registry" /\ cat[r].pc = "call2"
    /\ \E outcome \in ListOutcomes(cat[r].sent[2].url, RegistryItems) :
         cat' = [cat EXCEPT ![r] =
                   [@ EXCEPT !.pc = "done",
                             !.ret = Append(@, outcome),
                             !.models = RegistryModels(outcome),
                             !.resp = JSONLists]]
    /\ UNCHANGED <<env, client, scope, pc, gateway>>

----------------------------------------------------------------------------
(* The environment *)

\* The value of SPEACHES_URL in the process environment changes.
EnvChange ==
    /\ \E e \in EnvValues \ {env} : env' = e
    /\ UNCHANGED <<pc, kind, inp, loc, sent, ret, log, resp, client, scope, cat>>

\* The client of a request in flight drops its connection.  Nothing carries
\* the disconnection to the outbound calls: the handler goes on, and what it
\* writes afterwards (c.JSON, io.Copy) fails without the handler noticing.
ClientDisconnect(r) ==
    /\ pc[r] \in {"call1", "install", "call2"}
    /\ client[r] = "connected"
    /\ client' = [client EXCEPT ![r] = "gone"]
    /\ UNCHANGED <<env, scope, pc, kind, inp, loc, sent, ret, log, resp, cat>>

----------------------------------------------------------------------------
(* The specifications *)

\* The requests served: one, or two side by side under scope "pair".
Active == IF scope = "pair" THEN Slots ELSE Serial

\* The state of the process once main has registered the routes.  A slot that
\* is not served stays off.
Started ==
    /\ env \in EnvValues
    /\ pc = [r \in Slots |-> IF r \in Active THEN "idle" ELSE "off"]
    /\ kind = [r \in Slots |-> "none"]
    /\ inp = [r \in Slots |-> [none |-> TRUE]]
    /\ loc = [r \in Slots |-> NoLocals]
    /\ sent = [r \in Slots |-> <<>>]
    /\ ret = [r \in Slots |-> <<>>]
    /\ log = [r \in Slots |-> <<>>]
    /\ resp = [r \in Slots |-> NoResponse]
    /\ client = [r \in Slots |-> "connected"]
    /\ cat = [r \in Slots |-> NoCatalogue]

Init == scope = "wide" /\ Started

InitPair == scope = "pair" /\ Started

InitBodies == scope = "bodies" /\ Started

Next ==
    \/ EnvChange
    \/ \E r \in Slots :
        \/ TTSStart(r)
        \/ TTSCall1Return(r)
        \/ TTSInstallReturn(r)
        \/ TTSCall2Return(r)
        \/ STTStart(r)
        \/ STTCall1Return(r)
        \/ STTInstallReturn(r)
        \/ STTCall2Return(r)
        \/ ClientDisconnect(r)
        \/ InstallModelStart(r)
        \/ InstallModelReturn(r)
        \/ GetModelsStart(r)
        \/ GetModelsReturn(r)
        \/ GetRegistryStart(r)
        \/ GetRegistryInstalledReturn(r)
        \/ GetRegistryReturn(r)

Spec == Init /\ [][Next]_vars

\* Two requests served side by side, over narrow inputs.
SpecPair == InitPair /\ [][Next]_vars

\* The outbound call request r is blocked on returns.
Returns(r) ==
    \/ TTSCall1Return(r)
    \/ TTSInstallReturn(r)
    \/ TTSCall2Return(r)
    \/ STTCall1Return(r)
    \/ STTInstallReturn(r)
    \/ STTCall2Return(r)

\* Every outbound call eventually returns, with a response or a network
\* error, and the handler blocked on it then runs on.
CallsReturn == \A r \in Slots : WF_vars(Returns(r))

\* Two requests served side by side, every outbound call returning.
FairSpec == InitPair /\ [][Next]_vars /\ CallsReturn

\* One request, over narrow inputs and composed backend error bodies.
SpecBodies == InitBodies /\ [][Next]_vars

----------------------------------------------------------------------------
(* Vocabulary of the properties *)

\* The text is empty or consists only of whitespace.
BlankText(text) == \A i \in 1..Len(text) : SubSeq(text, i, i) = " "

\* The missing-model signature of a response body.
MissingModelSignature(body) ==
    Contains(body, "is not installed locally")
    \/ (Contains(body, "Model") /\ Contains(body, "not found"))

IsInference(request) == request.call \in {"speech", "transcriptions"}
IsInstall(request) == request.call = "install"

InferenceCalls(r) == Cardinality({i \in 1..Len(sent[r]) : IsInference(sent[r][i])})
InstallCalls(r) == Cardinality({i \in 1..Len(sent[r]) : IsInstall(sent[r][i])})

\* The first call of request r returned a response with a status other than 200.
FirstFailed(r) ==
    Len(ret[r]) >= 1 /\ ~ret[r][1].err /\ ret[r][1].status # 200

\* The first call of request r returned a missing-model failure.
FirstMissingModel(r) ==
    FirstFailed(r) /\ MissingModelSignature(ret[r][1].body)

\* The client of request r received the first attempt's status code and body.
CarriesFirstAttempt(r) ==
    /\ resp[r].status = ret[r][1].status
    /\ resp[r].error = "speaches.ai server error: " \o ret[r][1].body
    /\ resp[r].body = ""

IsPrefix(s, t) == Len(s) <= Len(t) /\ SubSeq(t, 1, Len(s)) = s

----------------------------------------------------------------------------
(* C1 *)

\* C1: in handleTTS a text that is empty or only whitespace is rejected with
\* HTTP 400 and no outbound call is made for the request.
C1_BlankTextRejected ==
    \A r \in Slots :
        (kind[r] = "tts" /\ inp[r].jsonOK /\ BlankText(inp[r].text))
            => /\ sent[r] = <<>>
               /\ pc[r] = "done" => resp[r].status = 400

----------------------------------------------------------------------------
(* C2 *)

\* C2: in handleTTS, after a missing-model first response for a piper voice
\* and a completed install call, a retried speech call that fails with a
\* network error leaves the client with the first attempt's status and body.
C2_RetryNetworkErrorKeepsOriginal ==
    \A r \in Slots :
        (/\ kind[r] = "tts" /\ pc[r] = "done"
         /\ loc[r].model = "tts-1-piper"
         /\ FirstMissingModel(r)
         /\ Len(ret[r]) = 3 /\ ~ret[r][2].err /\ ret[r][3].err)
            => CarriesFirstAttempt(r)

----------------------------------------------------------------------------
(* C3 *)

\* C3: in handleTTS, when the retried speech call returns a non-200 status,
\* the error sent to the client carries the status code and body of the first
\* attempt, never those of the retry.
C3_RetryNon200KeepsOriginal ==
    \A r \in Slots :
        (/\ kind[r] = "tts" /\ pc[r] = "done"
         /\ Len(ret[r]) = 3 /\ ~ret[r][3].err /\ ret[r][3].status # 200)
            => CarriesFirstAttempt(r)

\* A retry that failed with another status and another body than the first
\* attempt, answered with the first attempt's.
C3_Witness ==
    \E r \in Slots :
        /\ kind[r] = "tts" /\ pc[r] = "done"
        /\ Len(ret[r]) = 3 /\ ~ret[r][3].err /\ ret[r][3].status # 200
        /\ ret[r][3].status # ret[r][1].status
        /\ ret[r][3].body # ret[r][1].body
        /\ CarriesFirstAttempt(r)

----------------------------------------------------------------------------
(* C4 *)

\* C4: in handleSTT, once the first response was a missing-model failure,
\* every outcome of the recovery other than a 200 from the retried call (the
\* install call failing, the retry not being built, the retry failing at the
\* network level, the retry answering a non-200) leaves the client with the
\* first attempt's status code and body.
C4_STTRecoveryFailureKeepsOriginal ==
    \A r \in Slots :
        (/\ kind[r] = "stt" /\ pc[r] = "done"
         /\ FirstMissingModel(r)
         /\ ~(Len(ret[r]) = 3 /\ ~ret[r][3].err /\ ret[r][3].status = 200))
            => CarriesFirstAttempt(r)

\* The retried transcription call failed at the network level and the client
\* got the first attempt's 404.
C4_Witness ==
    \E r \in Slots :
        /\ kind[r] = "stt" /\ pc[r] = "done"
        /\ FirstMissingModel(r) /\ ret[r][1].status = 404
        /\ Len(ret[r]) = 3 /\ ~ret[r][2].err /\ ret[r][3].err
        /\ CarriesFirstAttempt(r)

----------------------------------------------------------------------------
(* C5 *)

\* The install URL the claim names, for the voice sent in the first call.
PiperInstallURL(r) ==
    loc[r].base \o "/v1/models/speaches-ai%2Fpiper-" \o sent[r][1].payload.voice

\* Request r is a finished synthesis of a piper voice whose first response was
\* a missing-model failure.
PiperMissingModelDone(r) ==
    /\ kind[r] = "tts" /\ pc[r] = "done"
    /\ inp[r].model = "tts-1-piper"
    /\ FirstMissingModel(r)

\* C5 as stated: a missing-model first response for a piper voice triggers
\* exactly one install POST to /v1/models/speaches-ai%2Fpiper-<voice>,
\* followed by exactly one retried POST to the speech endpoint.
C5_InstallThenRetryAlways ==
    \A r \in Slots :
        PiperMissingModelDone(r)
            => /\ Len(sent[r]) = 3
               /\ IsInstall(sent[r][2]) /\ sent[r][2].method = "POST"
               /\ sent[r][2].url = PiperInstallURL(r)
               /\ sent[r][3] = sent[r][1]

\* C5 as amended: a missing-model first response for a piper voice triggers
\* exactly one install POST to /v1/models/speaches-ai%2Fpiper-<voice>; when
\* that POST completes a network round trip it is followed by exactly one
\* retried POST to the speech endpoint, and when it fails at the network
\* level no retry is issued.
C5_InstallThenRetryIfInstalled ==
    \A r \in Slots :
        PiperMissingModelDone(r)
            => /\ InstallCalls(r) = 1
               /\ IsInstall(sent[r][2]) /\ sent[r][2].method = "POST"
               /\ sent[r][2].url = PiperInstallURL(r)
               /\ sent[r][1].payload.voice \in piperVoices
               /\ IF ret[r][2].err
                  THEN Len(sent[r]) = 2
                  ELSE /\ Len(sent[r]) = 3
                       /\ sent[r][3] = sent[r][1]
                       /\ sent[r][3].url = loc[r].base \o "/v1/audio/speech"
                       /\ IsPrefix(<<"send:call1", "ret:call1", "send:install",
                                     "ret:install", "send:call2">>, log[r])

\* A 404 "Model xyz not found" for a piper voice the client chose, installed
\* and retried.
C5_Witness ==
    \E r \in Slots :
        /\ PiperMissingModelDone(r)
        /\ inp[r].voice = "en_US-amy-low"
        /\ ret[r][1].status = 404 /\ ret[r][1].body = "Model xyz not found"
        /\ sent[r][2].url = loc[r].base \o "/v1/models/speaches-ai%2Fpiper-en_US-amy-low"
        /\ Len(sent[r]) = 3 /\ InferenceCalls(r) = 2 /\ InstallCalls(r) = 1

----------------------------------------------------------------------------
(* C6 *)

\* Request r is a finished transcription whose first response was a
\* missing-model failure.
STTMissingModelDone(r) ==
    /\ kind[r] = "stt" /\ pc[r] = "done"
    /\ FirstMissingModel(r)

\* C6 as stated: in handleSTT a missing-model first response triggers exactly
\* one install POST to /v1/models/whisper-1, followed by exactly one retried
\* POST to the transcription endpoint, whatever the language and the tier.
C6_STTInstallThenRetryAlways ==
    \A r \in Slots :
        STTMissingModelDone(r)
            => /\ Len(sent[r]) = 3
               /\ IsInstall(sent[r][2]) /\ sent[r][2].method = "POST"
               /\ sent[r][2].url = loc[r].base \o "/v1/models/whisper-1"
               /\ sent[r][3].call = "transcriptions"
               /\ sent[r][3].url = sent[r][1].url

\* C6 as amended: in handleSTT a missing-model first response triggers exactly
\* one install POST to /v1/models/whisper-1, whatever the language and the
\* tier; when that POST completes a network round trip it is followed by
\* exactly one retried POST to the transcription endpoint, and when it fails
\* at the network level no retry is issued.
C6_STTInstallThenRetryIfInstalled ==
    \A r \in Slots :
        STTMissingModelDone(r)
            => /\ InstallCalls(r) = 1
               /\ IsInstall(sent[r][2]) /\ sent[r][2].method = "POST"
               /\ sent[r][2].url = loc[r].base \o "/v1/models/whisper-1"
               /\ IF ret[r][2].err
                  THEN Len(sent[r]) = 2
                  ELSE /\ Len(sent[r]) = 3
                       /\ sent[r][3].call = "transcriptions"
                       /\ sent[r][3].method = "POST"
                       /\ sent[r][3].url = loc[r].base \o "/v1/audio/transcriptions"
                       /\ IsPrefix(<<"send:call1", "ret:call1", "send:install",
                                     "ret:install", "send:call2">>, log[r])

\* A missing-model failure for a request with an unsupported language and an
\* unsupported tier, installed and retried.
C6_Witness ==
    \E r \in Slots :
        /\ STTMissingModelDone(r)
        /\ inp[r].language = {"xx"} /\ inp[r].tier = {"turbo"}
        /\ sent[r][2].url = loc[r].base \o "/v1/models/whisper-1"
        /\ Len(sent[r]) = 3 /\ InferenceCalls(r) = 2 /\ InstallCalls(r) = 1

----------------------------------------------------------------------------
(* C7 *)

\* C7: in both handlers, when the first backend call returns HTTP 200, no
\* install call and no second inference call is issued for the request.
C7_SuccessNeverInstalls ==
    \A r \in Slots :
        (Len(ret[r]) >= 1 /\ ~ret[r][1].err /\ ret[r][1].status = 200)
            => /\ Len(sent[r]) = 1
               /\ InstallCalls(r) = 0
               /\ InferenceCalls(r) = 1

\* A 200 for a piper voice whose body carries the missing-model words: the
\* request ends with its single call.
C7_Witness ==
    \E r \in Slots :
        /\ kind[r] = "tts" /\ pc[r] = "done"
        /\ loc[r].model = "tts-1-piper"
        /\ ~ret[r][1].err /\ ret[r][1].status = 200
        /\ MissingModelSignature(ret[r][1].body)
        /\ Len(sent[r]) = 1
        /\ resp[r].status = 200

----------------------------------------------------------------------------
(* C8 *)

\* C8: in handleTTS, when the requested model is the kokoro model, empty or
\* unrecognized and the first response is a non-200 whose body matches the
\* missing-model signature, no install call and no retry is issued and the
\* first response's status and body are returned.
C8_KokoroNeverInstalls ==
    \A r \in Slots :
        (/\ kind[r] = "tts"
         /\ inp[r].jsonOK /\ inp[r].model # "tts-1-piper"
         /\ FirstMissingModel(r))
            => /\ Len(sent[r]) = 1
               /\ pc[r] = "done"
               /\ CarriesFirstAttempt(r)

\* An unrecognized model name and a 404 "Model xyz not found": answered with
\* that 404 after one call.
C8_Witness ==
    \E r \in Slots :
        /\ kind[r] = "tts" /\ pc[r] = "done"
        /\ inp[r].model = "tts-2"
        /\ FirstMissingModel(r) /\ ret[r][1].status = 404
        /\ Len(sent[r]) = 1
        /\ resp[r].status = 404

----------------------------------------------------------------------------
(* C9 *)

\* C9: for every request and every behaviour of the backend, at most two calls
\* go to the inference endpoint and at most one install call is made.
C9_AtMostOneRetry ==
    \A r \in Slots :
        /\ InferenceCalls(r) <= 2
        /\ InstallCalls(r) <= 1
        /\ Len(sent[r]) = InferenceCalls(r) + InstallCalls(r)

\* A request that used the whole budget, and whose retry failed again on a
\* missing model.
C9_Witness ==
    \E r \in Slots :
        /\ pc[r] = "done"
        /\ InferenceCalls(r) = 2 /\ InstallCalls(r) = 1
        /\ ~ret[r][3].err /\ ret[r][3].status # 200
        /\ MissingModelSignature(ret[r][3].body)

----------------------------------------------------------------------------
(* C10 *)

\* The orders of outbound events a request may go through.
AllowedLogs ==
    {<<"respond">>,
     <<"send:call1", "ret:call1", "respond">>,
     <<"send:call1", "ret:call1", "send:install", "ret:install", "respond">>,
     <<"send:call1", "ret:call1", "send:install", "ret:install",
       "send:call2", "ret:call2", "respond">>}

\* C10: the outbound events of a request are ordered call#1, then possibly
\* the install call and call#2, then the response: the install call is issued
\* only after call#1 returned a response, call#2 only after the install call
\* returned, and the client is answered only when every issued call returned.
C10_StrictOrder ==
    \A r \in Slots :
        /\ \E full \in AllowedLogs : IsPrefix(log[r], full)
        /\ pc[r] = "done" => log[r] \in AllowedLogs
        /\ Len(ret[r]) <= Len(sent[r]) /\ Len(sent[r]) <= Len(ret[r]) + 1
        /\ Len(sent[r]) >= 2 => (IsInstall(sent[r][2]) /\ ~ret[r][1].err)
        /\ Len(sent[r]) >= 3 => (IsInference(sent[r][3]) /\ ~ret[r][2].err)
        /\ resp[r] # NoResponse => (pc[r] = "done" /\ Len(ret[r]) = Len(sent[r]))

\* A request that went through all seven events.
C10_Witness ==
    \E r \in Slots :
        log[r] = <<"send:call1", "ret:call1", "send:install", "ret:install",
                   "send:call2", "ret:call2", "respond">>

----------------------------------------------------------------------------
(* C11 *)

\* C11: when the first backend call fails at the connection level the request
\* fails with HTTP 503 and no install call and no retry is issued, in both
\* handlers and for every model family.
C11_UnreachableBackendNoRetry ==
    \A r \in Slots :
        (Len(ret[r]) >= 1 /\ ret[r][1].err)
            => /\ Len(sent[r]) = 1
               /\ pc[r] = "done"
               /\ resp[r].status = 503
               /\ resp[r].error # ""

\* A piper synthesis whose first call got no response, answered 503 after
\* that one call.
C11_Witness ==
    \E r \in Slots :
        /\ kind[r] = "tts" /\ pc[r] = "done"
        /\ loc[r].model = "tts-1-piper"
        /\ ValidURL(sent[r][1].url)
        /\ ret[r] = <<NetErr>>
        /\ Len(sent[r]) = 1
        /\ resp[r].status = 503

----------------------------------------------------------------------------
(* C12 *)

\* The voice and the model the kokoro family resolves a client voice to.
KokoroVoiceOf(voice) == IF voice \in kokoroVoices THEN voice ELSE "af_nova"

\* Request r is a synthesis that passed the input checks.
TTSAccepted(r) == kind[r] = "tts" /\ inp[r].jsonOK /\ inp[r].text # ""

\* C12: for a model name that is neither the kokoro nor the piper keyword the
\* request is treated exactly like a kokoro request: an allow-listed kokoro
\* voice is kept, any other or absent voice becomes "af_nova", the model is the
\* fixed kokoro model name, and no error is produced.
C12_UnrecognizedModelIsKokoro ==
    \A r \in Slots :
        (TTSAccepted(r) /\ inp[r].model \notin {"", "tts-1", "tts-1-piper"})
            => /\ Len(sent[r]) >= 1
               /\ sent[r][1].payload.model = "tts-1"
               /\ sent[r][1].payload.voice = KokoroVoiceOf(inp[r].voice)

----------------------------------------------------------------------------
(* C13 *)

\* C13: when the requested model is "tts-1" or empty, an allow-listed kokoro
\* voice is sent to the backend unchanged, every other voice (absent, bogus or
\* a piper voice) is replaced by "af_nova", and the model sent is "tts-1".
C13_KokoroVoices ==
    \A r \in Slots :
        (TTSAccepted(r) /\ inp[r].model \in {"", "tts-1"})
            => /\ Len(sent[r]) >= 1
               /\ sent[r][1].call = "speech"
               /\ sent[r][1].payload.model = "tts-1"
               /\ sent[r][1].payload.input = inp[r].text
               /\ sent[r][1].payload.voice = KokoroVoiceOf(inp[r].voice)

\* A kokoro voice other than the default, sent unchanged with an empty model.
C13_Witness ==
    \E r \in Slots :
        /\ TTSAccepted(r)
        /\ inp[r].model = "" /\ inp[r].voice = "bf_emma"
        /\ sent[r][1].payload.voice = "bf_emma"
        /\ sent[r][1].payload.model = "tts-1"

----------------------------------------------------------------------------
(* C14 *)

\* The voice the piper family resolves a client voice to.
PiperVoiceOf(voice) == IF voice \in piperVoices THEN voice ELSE "en_US-ryan-medium"

\* C14: when the requested model is "tts-1-piper", an allow-listed piper voice
\* is kept and the model sent is "speaches-ai/piper-" followed by it; every
\* other voice (absent, bogus or a kokoro voice) is first replaced by
\* "en_US-ryan-medium".
C14_PiperVoices ==
    \A r \in Slots :
        (TTSAccepted(r) /\ inp[r].model = "tts-1-piper")
            => /\ Len(sent[r]) >= 1
               /\ sent[r][1].call = "speech"
               /\ sent[r][1].payload.voice = PiperVoiceOf(inp[r].voice)
               /\ sent[r][1].payload.model =
                      "speaches-ai/piper-" \o PiperVoiceOf(inp[r].voice)
               /\ sent[r][1].payload.input = inp[r].text

\* The example of the claim: {"Hello world", "tts-1-piper", "bogus"}.
C14_Witness ==
    \E r \in Slots :
        /\ TTSAccepted(r)
        /\ inp[r].text = "Hello world"
        /\ inp[r].model = "tts-1-piper" /\ inp[r].voice = "bogus"
        /\ sent[r][1].payload =
               [model |-> "speaches-ai/piper-en_US-ryan-medium",
                input |-> "Hello world",
                voice |-> "en_US-ryan-medium"]

----------------------------------------------------------------------------
(* C15 *)

\* The outcome of the last transcription call of request r.
LastInference(r) == IF Len(ret[r]) = 3 THEN ret[r][3] ELSE ret[r][1]

\* C15: in handleSTT a 200 from the backend, on the first call or on the
\* retried one, gives the client exactly the transcript field when the body
\* decodes, and an error (HTTP 500) when it does not: a decode failure is never
\* turned into a successful empty transcript.
C15_TranscriptOrDecodeError ==
    \A r \in Slots :
        (/\ kind[r] = "stt" /\ pc[r] = "done"
         /\ Len(ret[r]) \in {1, 3}
         /\ ~LastInference(r).err /\ LastInference(r).status = 200)
            => LET result == JSONDecodeText(LastInference(r).body)
               IN  IF result.ok
                   THEN resp[r] = JSONText(result.text)
                   ELSE /\ resp[r].status = 500
                        /\ resp[r].error = "failed to decode transcription response"

----------------------------------------------------------------------------
(* C16 *)

\* C16: if the install POST itself fails at the network level, no retried
\* inference call is issued and the client receives the first attempt's status
\* and body, in both handlers.
C16_InstallNetworkErrorNoRetry ==
    \A r \in Slots :
        (Len(ret[r]) >= 2 /\ ret[r][2].err)
            => /\ IsInstall(sent[r][2])
               /\ Len(sent[r]) = 2
               /\ InferenceCalls(r) = 1
               /\ pc[r] = "done"
               /\ CarriesFirstAttempt(r)

\* A synthesis whose install POST got no response: two calls, and the first
\* attempt's 404 for the client.
C16_Witness ==
    \E r \in Slots :
        /\ kind[r] = "tts" /\ pc[r] = "done"
        /\ Len(ret[r]) = 2 /\ ret[r][2].err
        /\ ret[r][1].status = 404
        /\ Len(sent[r]) = 2
        /\ resp[r].status = 404

----------------------------------------------------------------------------
(* C17 *)

\* C17: whenever the install POST completes a network round trip, the retried
\* inference call is issued, whatever status the install call answered.
C17_InstallStatusDiscarded ==
    \A r \in Slots :
        (Len(ret[r]) >= 2 /\ ~ret[r][2].err)
            => /\ IsInstall(sent[r][2])
               /\ Len(sent[r]) = 3
               /\ IsInference(sent[r][3])
               /\ sent[r][3].url = sent[r][1].url

\* An install call answered 404, and the retry issued all the same.
C17_Witness ==
    \E r \in Slots :
        /\ kind[r] = "tts"
        /\ Len(ret[r]) >= 2 /\ ~ret[r][2].err /\ ret[r][2].status = 404
        /\ Len(sent[r]) = 3
        /\ sent[r][3].call = "speech"

----------------------------------------------------------------------------
(* C18 *)

\* C18: the retried call carries the payload of the first call: for synthesis
\* the same {model, input, voice}, for transcription the same file bytes,
\* filename, language and model, sent to the same URL with the same method.
C18_RetrySamePayload ==
    \A r \in Slots :
        Len(sent[r]) = 3
            => /\ sent[r][3].payload = sent[r][1].payload
               /\ sent[r][3].call = sent[r][1].call
               /\ sent[r][3].method = sent[r][1].method
               /\ sent[r][3].url = sent[r][1].url
               /\ kind[r] = "tts" => sent[r][3].payload.input = inp[r].text
               /\ kind[r] = "stt" =>
                      /\ sent[r][3].payload.file = inp[r].audio
                      /\ sent[r][3].payload.filename = inp[r].filename
                      /\ sent[r][3].payload.model = "whisper-1"

\* A transcription in French of the second audio blob, retried with the same
\* language and bytes.
C18_Witness ==
    \E r \in Slots :
        /\ kind[r] = "stt"
        /\ inp[r].language = {"fr"} /\ inp[r].audio = "RIFF2"
        /\ Len(sent[r]) = 3
        /\ sent[r][3].payload.language = "fr"
        /\ sent[r][3].payload.file = "RIFF2"
        /\ sent[r][1].payload.language = "fr"

----------------------------------------------------------------------------
(* C19 *)

\* C19: a non-200 response whose body does not match the missing-model
\* signature causes no install call and no retry, and the backend's status
\* code and body text are forwarded to the client, in both handlers.
C19_OtherErrorsForwarded ==
    \A r \in Slots :
        (FirstFailed(r) /\ ~MissingModelSignature(ret[r][1].body))
            => /\ Len(sent[r]) = 1
               /\ pc[r] = "done"
               /\ CarriesFirstAttempt(r)

\* A transcription answered 500 "not found": forwarded after the one call.
C19_Witness ==
    \E r \in Slots :
        /\ kind[r] = "stt" /\ pc[r] = "done"
        /\ FirstFailed(r)
        /\ ret[r][1].status = 500 /\ ret[r][1].body = "not found"
        /\ Len(sent[r]) = 1
        /\ resp[r].status = 500
        /\ resp[r].error = "speaches.ai server error: not found"

----------------------------------------------------------------------------
(* C20 *)

\* C20: a transcription request without an audio file fails with HTTP 400 and
\* no call to the backend is made, whatever the language and the quality tier.
C20_MissingAudioRejected ==
    \A r \in Slots :
        (kind[r] = "stt" /\ inp[r].file = "missing")
            => /\ sent[r] = <<>>
               /\ log[r] = <<"respond">>
               /\ pc[r] = "done"
               /\ resp[r].status = 400

\* A request without a file, with a supported language and a supported tier.
C20_Witness ==
    \E r \in Slots :
        /\ kind[r] = "stt" /\ pc[r] = "done"
        /\ inp[r].file = "missing"
        /\ inp[r].language = {"fr"} /\ inp[r].tier = {"fast"}
        /\ sent[r] = <<>>
        /\ resp[r] = JSONError(400, "audio file is required")

----------------------------------------------------------------------------
(* C21 *)

\* The language the client of transcription request r asked for; "en" when
\* the form has no language field.
ClientLanguageOf(r) == DefaultPostForm(inp[r].language, "en")

\* C21: every transcription call of handleSTT, the first one and the retried
\* one, carries a language of the supported set: the client's language when it
\* is supported and "en" when it is absent or unsupported.
C21_LanguageSupported ==
    \A r \in Slots :
        kind[r] = "stt"
            => \A i \in 1..Len(sent[r]) :
                 IsInference(sent[r][i])
                    => /\ sent[r][i].payload.language \in validLanguages
                       /\ sent[r][i].payload.language =
                            (IF ClientLanguageOf(r) \in validLanguages
                             THEN ClientLanguageOf(r) ELSE "en")
                       /\ sent[r][i].payload.language = sent[r][1].payload.language

\* An unsupported language became "en" in the first call and in the retry.
C21_Witness ==
    \E r \in Slots :
        /\ kind[r] = "stt" /\ inp[r].language = {"xx"}
        /\ Len(sent[r]) = 3
        /\ sent[r][1].payload.language = "en"
        /\ sent[r][3].payload.language = "en"

----------------------------------------------------------------------------
(* C30 *)

\* The (model, voice) pair of a speech payload is a kokoro pair or a piper pair.
CanonicalPair(payload) ==
    \/ payload.model = "tts-1" /\ payload.voice \in kokoroVoices
    \/ /\ payload.voice \in piperVoices
       /\ payload.model = "speaches-ai/piper-" \o payload.voice

\* C30: whatever model and voice the client gives, the speech request of an
\* accepted synthesis is issued (normalization does not fail) and carries
\* either ("tts-1", v) with v a kokoro voice or ("speaches-ai/piper-" + v, v)
\* with v a piper voice; an install call of handleTTS targets the model of a
\* piper voice of the allow-list.
C30_CanonicalModelAndVoice ==
    \A r \in Slots :
        TTSAccepted(r)
            => /\ Len(sent[r]) >= 1
               /\ \A i \in 1..Len(sent[r]) :
                    /\ IsInference(sent[r][i]) => CanonicalPair(sent[r][i].payload)
                    /\ IsInstall(sent[r][i])
                         => \E v \in piperVoices :
                              sent[r][i].url =
                                loc[r].base \o "/v1/models/speaches-ai%2Fpiper-" \o v

\* A piper request with a voice outside the allow-list installed the model of
\* the default piper voice.
C30_Witness ==
    \E r \in Slots :
        /\ TTSAccepted(r)
        /\ inp[r].model = "tts-1-piper" /\ inp[r].voice = "bogus"
        /\ Len(sent[r]) >= 2
        /\ sent[r][1].payload.model = "speaches-ai/piper-en_US-ryan-medium"
        /\ sent[r][1].payload.voice = "en_US-ryan-medium"
        /\ IsInstall(sent[r][2])
        /\ sent[r][2].url =
             loc[r].base \o "/v1/models/speaches-ai%2Fpiper-en_US-ryan-medium"

----------------------------------------------------------------------------
(* C23 *)

\* C23: when the speech call of handleTTS answers 200, on the first attempt or
\* on the retry, the handler answers 200 with Content-Type audio/mpeg,
\* Content-Disposition inline and exactly the body the backend sent.
C23_AudioPassedThrough ==
    \A r \in Slots :
        (/\ kind[r] = "tts" /\ pc[r] = "done"
         /\ Len(ret[r]) \in {1, 3}
         /\ ~LastInference(r).err /\ LastInference(r).status = 200)
            => /\ resp[r].status = 200
               /\ resp[r].ctype = "audio/mpeg"
               /\ resp[r].disp = "inline"
               /\ resp[r].body = LastInference(r).body
               /\ resp[r].error = ""

\* The retried call answered 200 with audio after a missing-model failure and
\* a connected client was given that audio.
C23_Witness ==
    \E r \in Slots :
        /\ kind[r] = "tts" /\ pc[r] = "done" /\ client[r] = "connected"
        /\ Len(ret[r]) = 3
        /\ FirstMissingModel(r)
        /\ ~ret[r][3].err /\ ret[r][3].status = 200 /\ ret[r][3].body = "ID3"
        /\ resp[r].status = 200 /\ resp[r].ctype = "audio/mpeg"
        /\ resp[r].disp = "inline" /\ resp[r].body = "ID3"

----------------------------------------------------------------------------
(* C24 *)

\* Request r is one whose pipeline recovers from a missing model: a
\* transcription, or a synthesis with the piper model.
Recovers(r) ==
    \/ kind[r] = "stt"
    \/ kind[r] = "tts" /\ inp[r].model = "tts-1-piper"

\* C24: after a first response with a status other than 200, handleSTT and
\* handleTTS (for the piper model) start the recovery, that is issue the
\* install call, if and only if the body contains "is not installed locally"
\* or contains both "Model" and "not found", wherever they stand in the body.
C24_SignatureExactly ==
    \A r \in Slots :
        (Recovers(r) /\ FirstFailed(r))
            => ((Len(sent[r]) >= 2 /\ IsInstall(sent[r][2]))
                  <=> MissingModelSignature(ret[r][1].body))

\* A body with "not found" before "Model" started the recovery of a synthesis.
C24_Witness ==
    \E r \in Slots :
        /\ kind[r] = "tts" /\ inp[r].model = "tts-1-piper"
        /\ FirstFailed(r)
        /\ ret[r][1].body = "not foundModel"
        /\ Len(sent[r]) >= 2 /\ IsInstall(sent[r][2])

----------------------------------------------------------------------------
(* C25 *)

\* The base URLs the gateway can be configured with.
BaseURLs == {BaseURL(e) : e \in EnvValues}

----------------------------------------------------------------------------
(* C26 *)

\* C26: a handler that issues its first call took the default base
\* http://localhost:8000 when SPEACHES_URL was empty or unset and the value of
\* SPEACHES_URL otherwise, and every outbound call of the request, the install
\* call and the retry included, goes to that base.
C26_DefaultOrConfiguredBase ==
    [][\A r \in Slots :
         /\ (pc[r] = "idle" /\ pc'[r] = "call1")
               => loc'[r].base =
                    (IF env = "" THEN "http://localhost:8000" ELSE env)
         /\ \A i \in 1..Len(sent'[r]) : IsPrefix(loc'[r].base, sent'[r][i].url)
         /\ Len(sent'[r]) >= 1 => loc'[r].base # ""]_vars

\* With SPEACHES_URL empty, the first call, the install call and the retry of
\* a transcription went to the default base.
C26_Witness ==
    \E r \in Slots :
        /\ kind[r] = "stt" /\ Len(sent[r]) = 3
        /\ loc[r].base = "http://localhost:8000"
        /\ sent[r][1].url = "http://localhost:8000/v1/audio/transcriptions"
        /\ sent[r][2].url = "http://localhost:8000/v1/models/whisper-1"
        /\ sent[r][3].url = "http://localhost:8000/v1/audio/transcriptions"

----------------------------------------------------------------------------
(* C22 *)

\* Transcription requests r1 and r2 have the same input but for the quality
\* tier, and read the same base URL.
SameButTier(r1, r2) ==
    /\ kind[r1] = "stt" /\ kind[r2] = "stt"
    /\ [inp[r1] EXCEPT !.tier = {}] = [inp[r2] EXCEPT !.tier = {}]
    /\ loc[r1].base = loc[r2].base

----------------------------------------------------------------------------
(* C27 *)

\* Everything the gateway holds about request r.
Own(r) == <<pc[r], kind[r], inp[r], loc[r], sent[r], ret[r], log[r], resp[r]>>

\* Requests r1 and r2 are served by the same handler with the same input and
\* the same base URL.
SameRequest(r1, r2) ==
    /\ kind[r1] = kind[r2] /\ kind[r1] # "none"
    /\ inp[r1] = inp[r2]
    /\ loc[r1].base = loc[r2].base

\* A step of the handler of request r touches nothing of another request.
StepIsLocal ==
    \A r \in Slots :
        pc'[r] # pc[r] => \A q \in Slots \ {r} : Own(q)' = Own(q)

\* What a request sent and answered is a function of its input and of the
\* outcomes of its own calls.
OutcomeIsOwn ==
    \A r1, r2 \in Slots :
        (SameRequest(r1, r2) /\ ret[r1] = ret[r2])
            => /\ sent[r1] = sent[r2]
               /\ resp[r1] = resp[r2]
               /\ pc[r1] = pc[r2]

\* C27: with two requests served at once under any interleaving of their
\* steps, a step of one handler changes nothing of the other request, and the
\* outbound calls and the response of a request are determined by its own
\* input and the outcomes of its own calls.
C27_NoSharedState == [][StepIsLocal]_vars /\ []OutcomeIsOwn

\* Two requests are in flight at once, one waiting for the install call and
\* one for the retried call.
C27_Witness ==
    \E r1, r2 \in Slots :
        /\ kind[r1] = "tts" /\ pc[r1] = "install"
        /\ kind[r2] = "stt" /\ pc[r2] = "call2"
        /\ resp[r1] = NoResponse /\ resp[r2] = NoResponse

----------------------------------------------------------------------------
(* C29 *)

\* In this step a speech call of request r answers 200 while the client of r
\* is gone, so that the copy of the audio fails.
CopyFails(r) ==
    /\ kind[r] = "tts" /\ client[r] = "gone"
    /\ pc[r] \in {"call1", "call2"}
    /\ Len(ret'[r]) = Len(ret[r]) + 1
    /\ ~ret'[r][Len(ret'[r])].err
    /\ ret'[r][Len(ret'[r])].status = 200

\* The handler of request r is over for good and request q can be started.
OverAndServing(r, q) ==
    (pc[r] = "done" /\ client[r] = "gone" /\ pc[q] = "idle")
        => ENABLED (TTSStart(q) \/ STTStart(q))

\* C29: when the audio of a 200 cannot be copied because the client is gone,
\* the handler ends there without issuing an install call or another speech
\* call; a handler that has ended never issues a call again; and the other
\* request can still be started and is left untouched.
C29_CopyFailureEndsRequest ==
    /\ [][\A r \in Slots :
            /\ CopyFails(r)
                 => /\ pc'[r] = "done"
                    /\ sent'[r] = sent[r]
                    /\ \A q \in Slots \ {r} : Own(q)' = Own(q)
            /\ pc[r] = "done" => (pc'[r] = "done" /\ sent'[r] = sent[r])]_vars
    /\ [](\A r, q \in Slots : OverAndServing(r, q))

\* A client left during the first speech call, the call answered 200, the
\* handler ended after that single call, and the other request was served
\* to its end.
C29_Witness ==
    \E r, q \in Slots :
        /\ kind[r] = "tts" /\ pc[r] = "done" /\ client[r] = "gone"
        /\ Len(sent[r]) = 1 /\ Len(ret[r]) = 1
        /\ ~ret[r][1].err /\ ret[r][1].status = 200
        /\ q # r /\ pc[q] = "done" /\ client[q] = "connected"
        /\ resp[q].status = 200

----------------------------------------------------------------------------
(* C28 *)

\* The number of responses the handler of request r wrote.
Responses(r) == Cardinality({i \in 1..Len(log[r]) : log[r][i] = "respond"})

\* A handler that has ended wrote one response, one still running none.
OneOutcome ==
    \A r \in Slots :
        /\ pc[r] = "done" => (Responses(r) = 1 /\ resp[r].status # 0)
        /\ pc[r] # "done" => (Responses(r) = 0 /\ resp[r] = NoResponse)

\* C28: when every outbound call returns, a request that was started ends,
\* and it ends with exactly one response to its client, a success or an
\* error: none is missing at the end, and a response once written is never
\* followed by another.
C28_CompletesWithOneOutcome ==
    /\ \A r \in Slots : (pc[r] \in {"call1", "install", "call2"}) ~> (pc[r] = "done")
    /\ []OneOutcome
    /\ [][\A r \in Slots : resp[r] # NoResponse => resp'[r] = resp[r]]_vars

\* A synthesis went through the first call, the install call and the retry
\* and ended with a single response.
C28_Witness ==
    \E r \in Slots :
        /\ kind[r] = "tts" /\ pc[r] = "done"
        /\ Len(ret[r]) = 3
        /\ Responses(r) = 1
        /\ resp[r].status # 0

----------------------------------------------------------------------------
(* C31 *)

----------------------------------------------------------------------------
(* C32 *)

\* The URL of an outbound call under the base URL base.
URLUnder(base, request) ==
    CASE request.call = "speech" -> request.url = base \o "/v1/audio/speech"
      [] request.call = "transcriptions" ->
           request.url = base \o "/v1/audio/transcriptions"
      [] request.call = "install" -> IsPrefix(base \o "/v1/models/", request.url)

\* C32: the first inference call, the install call and the retried call of
\* one request all go to the base URL the handler read before the first call,
\* whatever SPEACHES_URL has become in the meantime.
C32_OneBasePerRequest ==
    \A r \in Slots :
        \A i \in 1..Len(sent[r]) : URLUnder(loc[r].base, sent[r][i])

\* The retried call went to the base URL of the first call although
\* SPEACHES_URL names another one by now.
C32_Witness ==
    \E r \in Slots :
        /\ kind[r] = "tts" /\ pc[r] = "call2"
        /\ Len(sent[r]) = 3
        /\ BaseURL(env) # loc[r].base
        /\ sent[r][1].url = loc[r].base \o "/v1/audio/speech"
        /\ sent[r][3].url = sent[r][1].url

----------------------------------------------------------------------------
(* C33 *)

\* C33: the model keyword and the voice handleTTS resolved, given to the
\* normalization again, come back unchanged together with the canonical model
\* id that was sent.
C33_NormalizeIdempotent ==
    \A r \in Slots :
        (TTSAccepted(r) /\ Len(sent[r]) >= 1)
            => LET again == NormalizeVoice(loc[r].model, loc[r].voice)
               IN  /\ again.model = loc[r].model
                   /\ again.voice = loc[r].voice
                   /\ again.actualModel = sent[r][1].payload.model

\* A piper request with an unlisted voice was resolved to the default piper
\* voice, which the normalization keeps.
C33_Witness ==
    \E r \in Slots :
        /\ TTSAccepted(r) /\ Len(sent[r]) >= 1
        /\ inp[r].model = "tts-1-piper" /\ inp[r].voice = "bogus"
        /\ loc[r].model = "tts-1-piper" /\ loc[r].voice = "en_US-ryan-medium"
        /\ NormalizeVoice(loc[r].model, loc[r].voice).voice = "en_US-ryan-medium"

----------------------------------------------------------------------------
(* C34 *)

\* Request r was served to its end by handleInstallModel, with a model id.
InstallModelDone(r) ==
    /\ cat[r].kind = "install" /\ cat[r].pc = "done"
    /\ cat[r].inp.jsonOK /\ cat[r].inp.model_id # ""

\* handleInstallModel reported success for request r.
InstallReported(r) == cat[r].resp = JSONSuccess

\* C34 as stated: handleInstallModel makes exactly one backend call, answers
\* 503 when it gets no response, reports success if and only if the backend
\* answered 200 or 201, and answers any other backend status with that status
\* and an error.
C34_InstallEndpointFollowsStatus ==
    \A r \in Slots :
        InstallModelDone(r)
            => /\ Len(cat[r].sent) = 1 /\ Len(cat[r].ret) = 1
               /\ LET outcome == cat[r].ret[1]
                  IN  IF outcome.err
                      THEN cat[r].resp.status = 503 /\ cat[r].resp.error # ""
                      ELSE /\ InstallReported(r) <=> outcome.status \in {200, 201}
                           /\ outcome.status \notin {200, 201}
                                => /\ cat[r].resp.status = outcome.status
                                   /\ cat[r].resp.error # ""

\* C34, amended: handleInstallModel makes exactly one backend call and never
\* another; it answers 503 when it gets no response and 500 when the body of
\* the response cannot be read; when the body was read it reports success if
\* and only if the backend answered 200 or 201 and answers any other backend
\* status with that status and the backend's body in the error.
C34_InstallEndpointFollowsReadableStatus ==
    \A r \in Slots :
        /\ cat[r].kind = "install"
             => /\ Len(cat[r].sent) <= 1
                /\ Len(cat[r].ret) <= Len(cat[r].sent)
        /\ InstallModelDone(r)
            => /\ Len(cat[r].sent) = 1 /\ Len(cat[r].ret) = 1
               /\ cat[r].sent[1].url =
                    cat[r].base \o "/v1/models/" \o cat[r].inp.model_id
               /\ LET outcome == cat[r].ret[1]
                  IN  IF outcome.err
                      THEN cat[r].resp.status = 503 /\ cat[r].resp.error # ""
                      ELSE IF outcome.readerr
                      THEN cat[r].resp.status = 500 /\ cat[r].resp.error # ""
                      ELSE /\ InstallReported(r) <=> outcome.status \in {200, 201}
                           /\ outcome.status \notin {200, 201}
                                => /\ cat[r].resp.status = outcome.status
                                   /\ cat[r].resp.error =
                                        "Failed to install model: " \o outcome.body

\* The backend answered 404 with a readable body and the endpoint answered
\* 404 after its single call.
C34_Witness ==
    \E r \in Slots :
        /\ InstallModelDone(r)
        /\ Len(cat[r].sent) = 1
        /\ ~cat[r].ret[1].err /\ ~cat[r].ret[1].readerr
        /\ cat[r].ret[1].status = 404
        /\ cat[r].ret[1].body = "Model xyz not found"
        /\ cat[r].resp.status = 404
        /\ cat[r].resp.error = "Failed to install model: Model xyz not found"

----------------------------------------------------------------------------
(* C35 *)

\* The call answered a list that was decoded.
GaveList(outcome) == ~outcome.err /\ outcome.status = 200 /\ outcome.decodes

\* C35: handleGetRegistryModels always answers 200 with a model list that is
\* not empty: the hardcoded fallback list whenever the registry call fails,
\* answers another status than 200, cannot be decoded or lists no model, and
\* the registry's models otherwise; whatever the call for the installed models
\* does, the registry call is made and the request answered, with an empty
\* installed list when that call gave nothing.
C35_RegistryNeverEmpty ==
    \A r \in Slots :
        (cat[r].kind = "registry" /\ cat[r].pc = "done")
            => /\ cat[r].resp.status = 200
               /\ Len(cat[r].models) >= 1
               /\ Len(cat[r].sent) = 2 /\ Len(cat[r].ret) = 2
               /\ cat[r].sent[2].url = cat[r].base \o "/v1/registry"
               /\ LET registry == cat[r].ret[2]
                  IN  IF GaveList(registry) /\ Len(registry.data) >= 1
                      THEN /\ Len(cat[r].models) = Len(registry.data)
                           /\ \A i \in 1..Len(registry.data) :
                                cat[r].models[i].id = registry.data[i].id
                      ELSE cat[r].models = fallbackModels
               /\ LET installed == cat[r].ret[1]
                  IN  IF GaveList(installed)
                      THEN cat[r].installed =
                             {installed.data[i] : i \in 1..Len(installed.data)}
                      ELSE cat[r].installed = {}

\* The call for the installed models got no response and the registry listed
\* no model: the fallback list was answered with an empty installed list.
C35_Witness ==
    \E r \in Slots :
        /\ cat[r].kind = "registry" /\ cat[r].pc = "done"
        /\ cat[r].ret[1].err
        /\ GaveList(cat[r].ret[2]) /\ cat[r].ret[2].data = <<>>
        /\ cat[r].resp.status = 200
        /\ cat[r].models = fallbackModels
        /\ cat[r].installed = {}

----------------------------------------------------------------------------
(* C36 *)

\* How often x occurs in the list l.
Count(l, x) == Cardinality({i \in 1..Len(l) : l[i] = x})

\* The ids the claim counts as speech-to-text models.
ClaimedSTT(id) ==
    Contains(id, "whisper") \/ Contains(id, "speech") \/ Contains(id, "transcription")

\* C36: handleGetModels answers 503 with empty lists when its call gets no
\* response and 200 with empty lists when the backend answers another status
\* than 200 or a body that does not decode; otherwise it answers 200 and every
\* model of the backend's list is in exactly one of the two lists, as often
\* as the backend listed it: in stt when its id contains "whisper", "speech"
\* or "transcription" and in tts when it does not.
C36_ModelsPartitioned ==
    \A r \in Slots :
        (cat[r].kind = "models" /\ cat[r].pc = "done")
            => LET outcome == cat[r].ret[1]
               IN  /\ Len(cat[r].sent) = 1
                   /\ IF outcome.err
                      THEN /\ cat[r].resp.status = 503
                           /\ cat[r].tts = <<>> /\ cat[r].stt = <<>>
                      ELSE IF ~GaveList(outcome)
                      THEN /\ cat[r].resp.status = 200
                           /\ cat[r].tts = <<>> /\ cat[r].stt = <<>>
                      ELSE /\ cat[r].resp.status = 200
                           /\ Len(cat[r].tts) + Len(cat[r].stt) = Len(outcome.data)
                           /\ \A i \in 1..Len(outcome.data) :
                                LET id == outcome.data[i]
                                IN  IF ClaimedSTT(id)
                                    THEN /\ Count(cat[r].stt, id) = Count(outcome.data, id)
                                         /\ Count(cat[r].tts, id) = 0
                                    ELSE /\ Count(cat[r].tts, id) = Count(outcome.data, id)
                                         /\ Count(cat[r].stt, id) = 0

\* A list with a model whose id has a capital W and a model whose id contains
\* "speech": the first went to tts, the second to stt.
C36_Witness ==
    \E r \in Slots :
        /\ cat[r].kind = "models" /\ cat[r].pc = "done"
        /\ GaveList(cat[r].ret[1])
        /\ cat[r].ret[1].data = <<"Whisper-Large", "my-speech-model">>
        /\ cat[r].tts = <<"Whisper-Large">>
        /\ cat[r].stt = <<"my-speech-model">>

====
